---- MODULE Spec2Model ----
(***************************************************************************)
(* State-machine model of src/src/math/ndarray_manager.ts: the NDArray      *)
(* manager (NDArrayManager), its WebGL storage backend (WebGLStorage), the  *)
(* module globals GPGPU / TEXTURE_MANAGER and the value normalisation       *)
(* typedArrayToFloat32.                                                     *)
(*                                                                         *)
(* A call that throws is modelled by a result record with threw = TRUE and  *)
(* the storage state the call left behind; a handler is one action.         *)
(***************************************************************************)
EXTENDS Integers, Sequences, FiniteSets, TLC

(* ------------------------------ bounds -------------------------------- *)

\* Total number of makeNDArrayData calls over all managers.
MaxCalls == 3
\* Identifiers a caller hands directly to the storage backend are 1..MaxId.
MaxId == 1
\* Number of textures the texture pool can hand out before it is exhausted.
PoolSize == 2

(* ----------------------------- constants ------------------------------ *)

\* Encoding of the floating point not-a-number value written at line 57.
NaN == 999999999
\* util.NAN_INT32 (1 << 31) and util.NAN_BOOL, the markers util.isValNaN tests.
NAN_INT32 == -2147483647 - 1
NAN_BOOL == 255

Managers == {"m1", "m2"}
DType == {"float32", "int32", "bool"}

\* TypedArray values (util.TypedArray = Float32Array | Int32Array | Uint8Array).
\* kind "null" stands for an absent `values` argument. buf names the buffer
\* object: the caller's, or one made by `new Float32Array`.
NullValues == [kind |-> "null", data |-> <<>>, buf |-> "none"]
F2 == [kind |-> "Float32Array", data |-> <<1, 2>>, buf |-> "caller"]
F3 == [kind |-> "Float32Array", data |-> <<1, 2, 3>>, buf |-> "caller"]
I2 == [kind |-> "Int32Array", data |-> <<NAN_INT32, 16777217>>,
       buf |-> "caller"]
U2 == [kind |-> "Uint8Array", data |-> <<NAN_BOOL, 1>>, buf |-> "caller"]
TypedArrays == {F2, F3, I2, U2}

Args(shape, dtype, values) == [shape |-> shape, dtype |-> dtype, values |-> values]

\* Arguments callers pass to upload: a matching count for each dtype (with
\* the dtype's invalid marker among the int32 and bool values), a count that
\* differs from the product of shape, and a negative dimension.
UploadArgs ==
  { Args(<<2>>, "float32", F2), Args(<<1, 2>>, "int32", I2),
    Args(<<2>>, "bool", U2), Args(<<1, 2>>, "float32", F3),
    Args(<<-1>>, "float32", F2) }

\* Arguments callers pass to makeNDArrayData: the same, and calls without
\* values.
MakeArgs ==
  UploadArgs \cup { Args(<<2>>, "bool", NullValues),
                    Args(<<-1>>, "float32", NullValues) }

\* Arguments callers pass to allocate.
AllocArgs == { Args(a.shape, a.dtype, NullValues) : a \in UploadArgs }

RECURSIVE Prod(_)
\* Logical element count: the product of the dimensions.
Prod(shape) == IF shape = <<>> THEN 1 ELSE Head(shape) * Prod(Tail(shape))

(* ------------------- value normalisation (lines 49-61) ----------------- *)

RECURSIVE Pow2(_)
Pow2(n) == IF n = 0 THEN 1 ELSE 2 * Pow2(n - 1)

Abs(x) == IF x < 0 THEN -x ELSE x

RECURSIVE Ulp(_, _)
\* Spacing of the float32 numbers around an integer of magnitude a
\* (24 significant bits): the least u = 2^k with a / u < 2^24.
Ulp(a, u) == IF a \div u < Pow2(24) THEN u ELSE Ulp(a, 2 * u)

\* Storing an integer into a Float32Array element: round to the nearest
\* float32, ties to even. -2^31 is a power of two and is stored exactly.
Fround(v) ==
  IF v = NAN_INT32 THEN v
  ELSE
    LET a == Abs(v)
        u == Ulp(a, 1)
        lo == (a \div u) * u
        r == a - lo
        up == IF 2 * r > u THEN TRUE
              ELSE IF 2 * r < u THEN FALSE
              ELSE ((lo \div u) % 2) = 1
        m == IF up THEN lo + u ELSE lo
    IN IF v < 0 THEN -m ELSE m

\* util.isValNaN(val, dtype) on an element of an Int32Array / Uint8Array.
isValNaN(val, dtype) ==
  IF val = NaN THEN TRUE
  ELSE IF dtype = "float32" THEN FALSE
  ELSE IF dtype = "int32" THEN val = NAN_INT32
  ELSE val = NAN_BOOL

\* A typedArrayToFloat32 that copies the elements without the NaN test.
typedArrayToFloat32NoNaN(a, dtype) ==
  IF a.kind = "Float32Array" THEN a
  ELSE [kind |-> "Float32Array", buf |-> "new",
        data |-> [i \in 1..Len(a.data) |-> Fround(a.data[i])]]

typedArrayToFloat32(a, dtype) ==
  IF a.kind = "Float32Array" THEN a
  ELSE [kind |-> "Float32Array", buf |-> "new",
        data |-> [i \in 1..Len(a.data) |->
                    IF isValNaN(a.data[i], dtype) THEN NaN
                    ELSE Fround(a.data[i])]]

(* --------------------------- external parts ---------------------------- *)

\* webgl_util.getTextureShapeFromLogicalShape: a 2-D (rows, cols) layout.
getTextureShapeFromLogicalShape(shape) ==
  IF Len(shape) = 2 THEN shape ELSE <<1, Prod(shape)>>

\* TextureManager.acquireTexture over the set of textures handed out so far.
acquireTexture(out, texShape) ==
  IF Cardinality(out) >= PoolSize
    THEN [threw |-> TRUE, err |-> "PoolExhausted", texture |-> 0]
    ELSE [threw |-> FALSE, err |-> "none",
          texture |-> CHOOSE t \in 1..PoolSize :
                        t \notin out /\ \A u \in 1..PoolSize : u \notin out => t <= u]

\* GPGPUContext.uploadMatrixToTexture: bulk write of a float buffer into a
\* texture; fails where the device rejects the write.
uploadMatrixToTexture(tex, texture, rows, cols, floats, writeFails) ==
  IF writeFails
    THEN [threw |-> TRUE, err |-> "WebGLError", tex |-> tex]
    ELSE [threw |-> FALSE, err |-> "none",
          tex |-> [tex EXCEPT ![texture] =
                     [rows |-> rows, cols |-> cols, data |-> floats.data]]]

(* ------------------------ WebGLStorage (81-119) ------------------------ *)

\* The place of this.db: the class declares the field (line 82) and never
\* assigns it, so it is undefined in every WebGLStorage instance.
UndefinedDb == [defined |-> FALSE, recs |-> <<>>]

NoData == [texture |-> 0, type |-> "none", texShape |-> <<0, 0>>]
NoTexture == [rows |-> 0, cols |-> 0, data |-> <<>>]

\* Whether the storage table holds a record for id.
HasRecord(d, id) == d.defined /\ id \in DOMAIN d.recs

\* this.db[id] = webGLData on a defined table.
PutRecord(d, id, rec) ==
  [d EXCEPT !.recs = [k \in (DOMAIN d.recs) \cup {id} |->
                        IF k = id THEN rec ELSE d.recs[k]]]

\* An error that is reported and not thrown: the call returns normally.
ThrownSwallowed(S, e, tr) ==
  [S |-> S, threw |-> FALSE, err |-> "none", data |-> NoData,
   out |-> NullValues, trace |-> tr]

\* A call ending in an exception: the storage state S it leaves behind.
Thrown(S, e, tr) ==
  [S |-> S, threw |-> TRUE, err |-> e, data |-> NoData, out |-> NullValues,
   trace |-> tr]

Returned(S, data, out, tr) ==
  [S |-> S, threw |-> FALSE, err |-> "none", data |-> data, out |-> out,
   trace |-> tr]

\* A throwIfDisposed that returns normally on a live backend.
throwIfDisposedReturns ==
  [threw |-> FALSE, err |-> "none"]

\* throwIfDisposed(): throws unconditionally.
throwIfDisposed ==
  [threw |-> TRUE, err |-> "Method not implemented."]

\* allocate(id, shape, dtype). S = [db, acquired, taken, texData]; g, tm are the
\* module globals GPGPU and TEXTURE_MANAGER.
allocate(S, g, tm, id, shape, dtype) ==
  LET t == throwIfDisposed
      tr0 == <<"throwIfDisposed">>
  IN
  IF t.threw THEN Thrown(S, t.err, tr0)
  ELSE IF g = "null" THEN Thrown(S, "TypeError", tr0)
  ELSE
    LET texShape == getTextureShapeFromLogicalShape(shape)
        tr1 == Append(tr0, "getTextureShapeFromLogicalShape")
    IN
    IF tm = "null" THEN Thrown(S, "TypeError", tr1)
    ELSE
      LET a == acquireTexture(S.acquired \cup S.taken, texShape)
          tr2 == Append(tr1, "acquireTexture")
      IN
      IF a.threw THEN Thrown(S, a.err, tr2)
      ELSE
        LET S1 == [S EXCEPT !.acquired = @ \cup {a.texture}]
            webGLData == [texture |-> a.texture, type |-> "DEFAULT",
                          texShape |-> texShape]
        IN
        IF ~S1.db.defined THEN Thrown(S1, "TypeError", tr2)
        ELSE Returned([S1 EXCEPT !.db = PutRecord(@, id, webGLData)],
                      webGLData, NullValues, Append(tr2, "db[id]="))

\* upload(id, shape, dtype, values).
upload(S, g, tm, id, shape, dtype, values, writeFails) ==
  LET a == allocate(S, g, tm, id, shape, dtype) IN
  IF a.threw THEN a
  ELSE
    LET floats == typedArrayToFloat32(values, dtype)
        w == uploadMatrixToTexture(a.S.texData, a.data.texture,
                                   a.data.texShape[1], a.data.texShape[2],
                                   floats, writeFails)
        tr == Append(a.trace, "uploadMatrixToTexture")
    IN
    IF w.threw THEN Thrown(a.S, w.err, tr)
    ELSE Returned([a.S EXCEPT !.texData = w.tex], a.data, NullValues, tr)

\* download(id).
download(S, id) ==
  LET t == throwIfDisposed IN
  IF t.threw THEN Thrown(S, t.err, <<"throwIfDisposed">>)
  ELSE Thrown(S, "Method not implemented.", <<"throwIfDisposed">>)

\* A dispose that is implemented: it returns normally.
disposeReturns(S, id) ==
  Returned(S, NoData, NullValues, <<"throwIfDisposed">>)

\* dispose(id).
dispose(S, id) ==
  LET t == throwIfDisposed IN
  IF t.threw THEN Thrown(S, t.err, <<"throwIfDisposed">>)
  ELSE Thrown(S, "Method not implemented.", <<"throwIfDisposed">>)

(* ----------------------- NDArrayManager (121-139) ---------------------- *)

NoDesc == [id |-> 0, dtype |-> "none", shape |-> <<>>]

\* The first identifier of a manager: private nextId = 1.
FirstId == 1

\* An identifier taken without advancing the counter.
TakeIdNoIncrement(n) == [id |-> n, next |-> n]

\* const id = this.nextId++ : the identifier taken and the counter after it.
TakeId(n) == [id |-> n, next |-> n + 1]

\* A counter shared by all managers (a static field).
BumpShared(nx, m, next) == [k \in DOMAIN nx |-> next]

\* nextId is an instance field: the ++ of line 126 writes this.nextId only.
Bump(nx, m, next) == [nx EXCEPT ![m] = next]

\* A failed call that gives its identifier back to the counter.
FailedReusesId(t, u, call) ==
  [next |-> t.id, id |-> t.id, S |-> u.S, threw |-> TRUE, err |-> u.err,
   ret |-> NoDesc, tracked |-> FALSE, uploads |-> <<call>>, trace |-> u.trace]

\* storage.upload threw (line 129): nothing catches it, so the exception
\* leaves makeNDArrayData before track and return; nextId keeps its ++.
Failed(t, u, call) ==
  [next |-> t.next, id |-> t.id, S |-> u.S, threw |-> TRUE, err |-> u.err,
   ret |-> NoDesc, tracked |-> FALSE, uploads |-> <<call>>, trace |-> u.trace]

\* Lines 131-132: track(data); return data.
Tracked(t, S, data, uploads, tr) ==
  [next |-> t.next, id |-> t.id, S |-> S, threw |-> FALSE, err |-> "none",
   ret |-> data, tracked |-> TRUE, uploads |-> uploads,
   trace |-> Append(tr, "track")]

\* Lines 128-132 once storage.upload has ended as u.
AfterUpload(t, u, data, call) ==
  IF u.threw THEN Failed(t, u, call)
  ELSE Tracked(t, u.S, data, <<call>>, u.trace)

\* A makeNDArrayData without the `values != null` test of line 128.
makeNDArrayDataAlwaysUploads(n, S, g, tm, shape, dtype, values, writeFails) ==
  LET t == TakeId(n)
      data == [id |-> t.id, dtype |-> dtype, shape |-> shape]
  IN
  AfterUpload(t,
    upload(S, g, tm, t.id, shape, dtype, values, writeFails), data,
    [id |-> t.id, shape |-> shape, dtype |-> dtype, values |-> values])

\* makeNDArrayData(shape, dtype, values?) on a manager whose counter is n.
\* ret is the descriptor returned (NoDesc when the call threw), tracked says
\* whether track(data) ran, uploads lists the storage.upload invocations.
makeNDArrayData(n, S, g, tm, shape, dtype, values, writeFails) ==
  LET t == TakeId(n)
      data == [id |-> t.id, dtype |-> dtype, shape |-> shape]
  IN
  IF values.kind # "null"
    THEN AfterUpload(t,
           upload(S, g, tm, t.id, shape, dtype, values, writeFails), data,
           [id |-> t.id, shape |-> shape, dtype |-> dtype, values |-> values])
    ELSE Tracked(t, S, data, <<>>, <<>>)

(* ------------------------------- state --------------------------------- *)

VARIABLES
  GPGPU,            \* module global GPGPU: "null" or the context
  TEXTURE_MANAGER,  \* module global TEXTURE_MANAGER: "null" or the pool
  db,               \* WebGLStorage.db of the one storage backend
  acquired,         \* textures the pool has handed out and not taken back
  taken,            \* textures of the pool held by its other users
  texData,          \* what has been written into each texture
  nextId,           \* NDArrayManager.nextId of each manager
  hist,             \* per manager, its makeNDArrayData calls in order
  life,             \* per identifier, the backend operations that succeeded
  lastUpload,       \* the latest storage.upload invocation and its outcome
  last              \* the latest call: its arguments and its outcome

vars == <<GPGPU, TEXTURE_MANAGER, db, acquired, taken, texData, nextId, hist,
          life, lastUpload, last>>

\* Identifiers the storage backend sees: from direct callers and managers.
Ids == 1..(IF MaxId > MaxCalls THEN MaxId ELSE MaxCalls)

Storage == [db |-> db, acquired |-> acquired, taken |-> taken,
            texData |-> texData]

\* ready: GPGPU and TEXTURE_MANAGER were set and the pool could supply a
\* texture when upload was invoked.
Ready == /\ GPGPU # "null" /\ TEXTURE_MANAGER # "null"
         /\ Cardinality(acquired \cup taken) < PoolSize

NoUpload == [id |-> 0, shape |-> <<>>, dtype |-> "none", values |-> NullValues,
             threw |-> FALSE, ready |-> FALSE]

\* The record kept of the latest call. free: the pool could supply a texture
\* when the call started; had: id had a storage record when it started.
Call(op, m, id, shape, dtype, values, r, ret, tracked, uploads) ==
  [op |-> op, m |-> m, id |-> id, shape |-> shape, dtype |-> dtype,
   values |-> values, threw |-> r.threw, err |-> r.err, ret |-> ret,
   out |-> r.out, tracked |-> tracked, uploads |-> uploads, trace |-> r.trace,
   free |-> Cardinality(acquired \cup taken) < PoolSize, had |-> HasRecord(db, id),
   init |-> GPGPU # "null" /\ TEXTURE_MANAGER # "null"]

NoResult == [threw |-> FALSE, err |-> "none", out |-> NullValues, trace |-> <<>>]

TotalCalls == Len(hist["m1"]) + Len(hist["m2"])

Init ==
  /\ GPGPU = "null"
  /\ TEXTURE_MANAGER = "null"
  /\ db = UndefinedDb
  /\ acquired = {}
  /\ taken = {}
  /\ texData = [t \in 1..PoolSize |-> NoTexture]
  /\ nextId = [m \in Managers |-> FirstId]
  /\ hist = [m \in Managers |-> <<>>]
  /\ life = [i \in Ids |-> "unallocated"]
  /\ lastUpload = NoUpload
  /\ last = Call("new", "none", 0, <<>>, "none", NullValues, NoResult, NoDesc,
                 FALSE, <<>>)

\* The storage variables after a call that left the storage state S.
SetStorage(S) ==
  /\ db' = S.db
  /\ acquired' = S.acquired
  /\ taken' = S.taken
  /\ texData' = S.texData

\* life after operation op on id ended as r.
Step(op, id, r) ==
  IF r.threw \/ id \notin Ids THEN life
  ELSE [life EXCEPT ![id] = IF op = "allocate" THEN "allocated"
                            ELSE IF op = "upload" THEN "uploaded"
                            ELSE IF op = "dispose" THEN "disposed"
                            ELSE @]

(* ------------------------------ actions -------------------------------- *)

\* initializeGPU(gpgpu, textureManager), lines 43-47. The texture manager is
\* the caller's: exhausted, its other users hold every texture it has left.
InitializeGPU(exhausted) ==
  /\ GPGPU' = "gpgpu"
  /\ TEXTURE_MANAGER' = "textureManager"
  /\ taken' = IF exhausted THEN (1..PoolSize) \ acquired ELSE {}
  /\ last' = Call("initializeGPU", "none", 0, <<>>, "none", NullValues,
                  NoResult, NoDesc, FALSE, <<>>)
  /\ UNCHANGED <<db, acquired, texData, nextId, hist, life, lastUpload>>

\* manager m: makeNDArrayData(shape, dtype, values?), with the one
\* WebGLStorage as its storage.
CallMakeNDArrayData(m, shape, dtype, values, writeFails) ==
  /\ TotalCalls < MaxCalls
  /\ \E r \in {makeNDArrayData(nextId[m], Storage, GPGPU, TEXTURE_MANAGER,
                                 shape, dtype, values, writeFails)} :
     /\ nextId' = Bump(nextId, m, r.next)
     /\ SetStorage(r.S)
     /\ hist' = [hist EXCEPT ![m] =
                   Append(@, [id |-> r.id, threw |-> r.threw,
                              ret |-> r.ret.id, tracked |-> r.tracked])]
     /\ life' = IF r.uploads = <<>> THEN life
                ELSE Step("upload", r.id, r)
     /\ lastUpload' = IF r.uploads = <<>> THEN lastUpload
                      ELSE [id |-> r.uploads[1].id, shape |-> r.uploads[1].shape,
                            dtype |-> r.uploads[1].dtype,
                            values |-> r.uploads[1].values, threw |-> r.threw,
                            ready |-> Ready]
     /\ last' = Call("makeNDArrayData", m, r.id, shape, dtype, values,
                     [threw |-> r.threw, err |-> r.err, out |-> NullValues,
                      trace |-> r.trace],
                     r.ret, r.tracked, r.uploads)
  /\ UNCHANGED <<GPGPU, TEXTURE_MANAGER>>

\* A caller of the storage backend: allocate(id, shape, dtype).
CallAllocate(id, shape, dtype) ==
  /\ \E r \in {allocate(Storage, GPGPU, TEXTURE_MANAGER, id, shape, dtype)} :
     /\ SetStorage(r.S)
     /\ life' = Step("allocate", id, r)
     /\ last' = Call("allocate", "none", id, shape, dtype, NullValues, r,
                     NoDesc, FALSE, <<>>)
  /\ UNCHANGED <<GPGPU, TEXTURE_MANAGER, nextId, hist, lastUpload>>

\* A caller of the storage backend: upload(id, shape, dtype, values).
CallUpload(id, shape, dtype, values, writeFails) ==
  /\ \E r \in {upload(Storage, GPGPU, TEXTURE_MANAGER, id, shape, dtype,
                        values, writeFails)} :
     /\ SetStorage(r.S)
     /\ life' = Step("upload", id, r)
     /\ lastUpload' = [id |-> id, shape |-> shape, dtype |-> dtype,
                       values |-> values, threw |-> r.threw, ready |-> Ready]
     /\ last' = Call("upload", "none", id, shape, dtype, values, r,
                     NoDesc, FALSE, <<>>)
  /\ UNCHANGED <<GPGPU, TEXTURE_MANAGER, nextId, hist>>

\* A caller of the storage backend: download(id).
CallDownload(id) ==
  /\ \E r \in {download(Storage, id)} :
     /\ SetStorage(r.S)
     /\ life' = Step("download", id, r)
     /\ last' = Call("download", "none", id, <<>>, "none", NullValues, r,
                     NoDesc, FALSE, <<>>)
  /\ UNCHANGED <<GPGPU, TEXTURE_MANAGER, nextId, hist, lastUpload>>

\* A caller of the storage backend: dispose(id).
CallDispose(id) ==
  /\ \E r \in {dispose(Storage, id)} :
     /\ SetStorage(r.S)
     /\ life' = Step("dispose", id, r)
     /\ last' = Call("dispose", "none", id, <<>>, "none", NullValues, r,
                     NoDesc, FALSE, <<>>)
  /\ UNCHANGED <<GPGPU, TEXTURE_MANAGER, nextId, hist, lastUpload>>

Next ==
  \/ \E exhausted \in BOOLEAN : InitializeGPU(exhausted)
  \/ \E m \in Managers, a \in MakeArgs, writeFails \in BOOLEAN :
       CallMakeNDArrayData(m, a.shape, a.dtype, a.values, writeFails)
  \/ \E id \in 1..MaxId, a \in AllocArgs :
       CallAllocate(id, a.shape, a.dtype)
  \/ \E id \in 1..MaxId, a \in UploadArgs, writeFails \in BOOLEAN :
       CallUpload(id, a.shape, a.dtype, a.values, writeFails)
  \/ \E id \in 1..MaxId : CallDownload(id)
  \/ \E id \in 1..MaxId : CallDispose(id)

Spec == Init /\ [][Next]_vars

(* ------------- typedArrayToFloat32 as a function of its inputs ---------- *)

\* Longest typed array handed to typedArrayToFloat32.
MaxLen == 2

\* Elements of the inputs: the invalid markers of both dtypes, small
\* integers, and integers above 2^24 that float32 cannot hold.
Int32Values == {0, -1, NAN_BOOL, NAN_INT32, 16777217, 16777219}
Uint8Values == {0, 1, NAN_BOOL}
Float32Values == {0, 2, NaN}

SeqsUpTo(E) == UNION {[1..n -> E] : n \in 0..MaxLen}

TypedArrayOf(kind, E) ==
  {[kind |-> kind, data |-> d, buf |-> "caller"] : d \in SeqsUpTo(E)}

NormInputs ==
  TypedArrayOf("Int32Array", Int32Values)
    \cup TypedArrayOf("Uint8Array", Uint8Values)
    \cup TypedArrayOf("Float32Array", Float32Values)

\* typedArrayToFloat32(a, dtype), lines 49-61: last.values is a after the
\* call (the function assigns to res only), last.out what it returned.
CallTypedArrayToFloat32(a, dtype) ==
  /\ \E res \in {typedArrayToFloat32(a, dtype)} :
       last' = Call("typedArrayToFloat32", "none", 0, <<>>, dtype, a,
                    [threw |-> FALSE, err |-> "none", out |-> res,
                     trace |-> <<>>],
                    NoDesc, FALSE, <<>>)
  /\ UNCHANGED <<GPGPU, TEXTURE_MANAGER, db, acquired, taken, texData, nextId,
                 hist, life, lastUpload>>

NormNext == \E a \in NormInputs, dtype \in DType : CallTypedArrayToFloat32(a, dtype)

NormSpec == Init /\ [][NormNext]_vars

(* ------------------------------ properties ----------------------------- *)

\* The i-th makeNDArrayData call of manager m returned a descriptor
\* (ret = 0 marks a call that threw and returned nothing).
HasReturned(m, i) == hist[m][i].ret # 0

\* In the repository's backend no operation is ever accepted: no identifier
\* leaves "unallocated", the storage table stays undefined and the pool
\* hands out nothing.
BackendNeverAccepts ==
  /\ \A i \in Ids : life[i] = "unallocated"
  /\ ~db.defined
  /\ acquired = {}

\* C1: on one manager, whatever mix of calls with and without values (and
\* whatever storage calls, dispose included, happen in between), the first
\* call takes identifier 1 and the identifiers returned are strictly
\* increasing, so none is returned twice.
C1_IdsStrictlyIncreasing ==
  \A m \in Managers :
    /\ Len(hist[m]) > 0 => hist[m][1].id = 1
    /\ \A i \in 1..Len(hist[m]) :
         HasReturned(m, i) => hist[m][i].ret = hist[m][i].id /\ hist[m][i].ret >= 1
    /\ \A i, j \in 1..Len(hist[m]) :
         (i < j /\ HasReturned(m, i) /\ HasReturned(m, j))
           => hist[m][i].ret < hist[m][j].ret

\* C1 witness: a manager returned 1, then had a call with values fail, then
\* returned 3 right after a dispose call on the storage backend.
C1_Witness ==
  \E m \in Managers :
    /\ Len(hist[m]) = 3
    /\ hist[m][1].ret = 1
    /\ hist[m][2].threw
    /\ hist[m][3].ret = 3
    /\ last.op = "dispose"

\* C2: a makeNDArrayData call whose storage.upload threw ends by throwing
\* the same error, after exactly one upload invocation, with no descriptor
\* returned or tracked; its identifier stays consumed: the manager's counter
\* is past it and every later call on that manager takes a greater one.
C2_FailedUploadConsumesId ==
  /\ \A m \in Managers : \A i \in 1..Len(hist[m]) :
       hist[m][i].threw =>
         /\ hist[m][i].ret = 0
         /\ ~hist[m][i].tracked
         /\ nextId[m] > hist[m][i].id
         /\ \A j \in 1..Len(hist[m]) : j > i => hist[m][j].id > hist[m][i].id
  /\ (last.op = "makeNDArrayData" /\ last.threw) =>
       /\ last.ret = NoDesc
       /\ Len(last.uploads) = 1
       /\ last.err = "Method not implemented."

\* C2 witness: a call with values failed and a later call on the same
\* manager returned a descriptor.
C2_Witness ==
  \E m \in Managers : \E i, j \in 1..Len(hist[m]) :
    i < j /\ hist[m][i].threw /\ hist[m][j].ret > hist[m][i].id

\* Every dimension of shape is non-negative.
NonNegative(shape) == \A k \in 1..Len(shape) : shape[k] >= 0

\* Values are supplied and their count is the product of shape.
CountMatches(shape, values) ==
  values.kind # "null" /\ Len(values.data) = Prod(shape)

\* C3: with GPGPU and TEXTURE_MANAGER initialized and a texture available,
\* makeNDArrayData with values whose count is the product of shape returns
\* the descriptor {id, dtype, shape} of the newly taken identifier (1 for
\* the first call of a manager) and the backend holds a record for it.
C3_CreateWithValuesSucceeds ==
  ( /\ last.op = "makeNDArrayData"
    /\ last.init /\ last.free
    /\ NonNegative(last.shape)
    /\ CountMatches(last.shape, last.values) )
  => /\ ~last.threw
     /\ last.ret = [id |-> last.id, dtype |-> last.dtype, shape |-> last.shape]
     /\ (Len(hist[last.m]) = 1 => last.ret.id = 1)
     /\ HasRecord(db, last.id)

\* Textures held by the storage records of the backend's table.
Held == IF db.defined THEN {db.recs[i].texture : i \in DOMAIN db.recs} ELSE {}

\* The textures handed out by the pool and not taken back are exactly those
\* held by the storage records, and no two records hold the same texture.
\* In the repository's backend both sets stay empty (BackendNeverAccepts).
PoolAgreesWithTable ==
  /\ acquired = Held
  /\ db.defined =>
       \A i, j \in DOMAIN db.recs :
         db.recs[i].texture = db.recs[j].texture => i = j

\* C8: download(id) after upload(id, shape, dtype, values), for values that
\* fit a shape of positive dimensions, returns the uploaded values (the
\* invalid markers of int32 / bool as not-a-number).
C8_RoundTrip ==
  ( /\ last.op = "download"
    /\ lastUpload.id = last.id
    /\ lastUpload.ready
    /\ \A k \in 1..Len(lastUpload.shape) : lastUpload.shape[k] > 0
    /\ CountMatches(lastUpload.shape, lastUpload.values) )
  => /\ ~last.threw
     /\ last.out.data =
          typedArrayToFloat32(lastUpload.values, lastUpload.dtype).data

\* C9: makeNDArrayData with a negative dimension, or with values whose count
\* differs from the product of shape, fails with InvalidShape without
\* invoking storage.upload.
C9_InvalidShapeRejected ==
  ( /\ last.op = "makeNDArrayData"
    /\ \/ ~NonNegative(last.shape)
       \/ (last.values.kind # "null" /\ ~CountMatches(last.shape, last.values)) )
  => /\ last.threw
     /\ last.err = "InvalidShape"
     /\ last.uploads = <<>>

StorageOps == {"allocate", "upload", "download", "dispose"}

\* The step just taken ran a storage backend operation: a caller's, or the
\* upload that makeNDArrayData invoked.
RanStorageOp == last'.op \in StorageOps \/ last'.uploads # <<>>

\* C11: the backend has no live state (throwIfDisposed throws in every
\* state, the torn-down one included): allocate, upload, download and
\* dispose fail at that guard, before the shape resolver is consulted and
\* before any texture is acquired or written, leaving the storage table, the
\* pool and the textures unchanged.
C11_FailsAtGuard ==
  [][ RanStorageOp =>
        /\ last'.threw
        /\ last'.err = "Method not implemented."
        /\ last'.trace = <<"throwIfDisposed">>
        /\ UNCHANGED <<db, acquired, texData>> ]_vars

\* C11 witness: on an initialized backend whose pool has a texture to give,
\* where only the guard stands between the call and the resolver, allocate
\* was called and failed at the guard.
C11_Witness ==
  /\ last.op = "allocate"
  /\ last.init /\ last.free
  /\ last.threw
  /\ last.trace = <<"throwIfDisposed">>

\* The events of a trace.
Events(tr) == {tr[i] : i \in 1..Len(tr)}

\* C12: allocate or upload invoked on an initialized backend whose pool has
\* no texture left to give fails with the pool-exhaustion error, records no
\* storage record and writes to no texture.
C12_PoolExhaustionSurfaced ==
  (last.op \in {"allocate", "upload"} /\ last.init /\ ~last.free) =>
    /\ last.threw
    /\ last.err = "PoolExhausted"
    /\ ~HasRecord(db, last.id)
    /\ "uploadMatrixToTexture" \notin Events(last.trace)

\* A storage backend operation has just run: a caller's, or the upload that
\* makeNDArrayData invoked.
StorageOpRan == last.op \in StorageOps \/ last.uploads # <<>>

\* C13: a storage backend operation invoked before initializeGPU has set
\* GPGPU and TEXTURE_MANAGER fails, without acquiring a texture and without
\* recording a storage record.
C13_FailsBeforeInitializeGPU ==
  (StorageOpRan /\ ~last.init) =>
    /\ last.threw
    /\ "acquireTexture" \notin Events(last.trace)
    /\ "db[id]=" \notin Events(last.trace)
    /\ acquired = {}
    /\ ~HasRecord(db, last.id)

\* C13 witness: upload was invoked with values while GPGPU was still null,
\* and failed.
C13_Witness ==
  /\ last.op = "upload"
  /\ last.values.kind # "null"
  /\ ~last.init
  /\ GPGPU = "null"
  /\ last.threw

\* v is the invalid marker of dtype.
IsInvalidMarker(v, dtype) ==
  \/ dtype = "int32" /\ v = NAN_INT32
  \/ dtype = "bool" /\ v = NAN_BOOL

\* o is a float32 value nearest to the integer v: a multiple of the float32
\* spacing at v, at most half a spacing away.
NearestFloat32(o, v) ==
  IF v = NAN_INT32 THEN o = v
  ELSE /\ Abs(o) % Ulp(Abs(v), 1) = 0
       /\ 2 * Abs(o - v) <= Ulp(Abs(v), 1)

\* typedArrayToFloat32 has just returned.
Normalized == last.op = "typedArrayToFloat32"

\* C14 as stated: a Float32Array is returned as the same buffer; an
\* Int32Array or Uint8Array gives a new float buffer of the same length
\* whose element i is NaN where input[i] is the invalid marker of dtype and
\* input[i] itself otherwise.
C14_Verbatim ==
  Normalized =>
    IF last.values.kind = "Float32Array" THEN last.out = last.values
    ELSE /\ last.out.kind = "Float32Array"
         /\ last.out.buf # last.values.buf
         /\ Len(last.out.data) = Len(last.values.data)
         /\ \A i \in 1..Len(last.values.data) :
              last.out.data[i] =
                IF IsInvalidMarker(last.values.data[i], last.dtype) THEN NaN
                ELSE last.values.data[i]

\* C14 amended: as C14_Verbatim, except that an element that is not the
\* invalid marker becomes the float32 nearest to input[i], which is input[i]
\* itself when |input[i]| <= 2^24.
C14_NearestFloat32 ==
  Normalized =>
    IF last.values.kind = "Float32Array" THEN last.out = last.values
    ELSE /\ last.out.kind = "Float32Array"
         /\ last.out.buf # last.values.buf
         /\ Len(last.out.data) = Len(last.values.data)
         /\ \A i \in 1..Len(last.values.data) :
              LET v == last.values.data[i]
                  o == last.out.data[i]
              IN IF IsInvalidMarker(v, last.dtype) THEN o = NaN
                 ELSE /\ NearestFloat32(o, v)
                      /\ (v # NAN_INT32 /\ Abs(v) <= Pow2(24)) => o = v

\* C14 witness: an Int32Array holding the int32 marker and an integer above
\* 2^24 was normalized with dtype int32: the marker became NaN, the integer
\* was rounded.
C14_Witness ==
  /\ Normalized
  /\ last.dtype = "int32"
  /\ last.values.kind = "Int32Array"
  /\ last.values.data = <<NAN_INT32, 16777217>>
  /\ last.out.data = <<NaN, 16777216>>

\* C15: makeNDArrayData invokes storage.upload exactly once, with the
\* identifier it took for the descriptor and the caller's shape, dtype and
\* values, when values are supplied, and only then: without values it runs
\* no storage operation, acquires no texture and leaves the storage table
\* and the textures unchanged.
C15_UploadIffValues ==
  [][ last'.op = "makeNDArrayData" =>
        IF last'.values.kind # "null"
          THEN /\ last'.uploads = << [id |-> last'.id, shape |-> last'.shape,
                                      dtype |-> last'.dtype,
                                      values |-> last'.values] >>
               /\ ~last'.threw => last'.ret.id = last'.id
          ELSE /\ last'.uploads = <<>>
               /\ last'.trace = <<"track">>
               /\ ~last'.threw /\ last'.ret.id = last'.id
               /\ UNCHANGED <<db, acquired, texData>> ]_vars

\* C15 witness: a manager made an array without values, which reached the
\* storage not at all, and then one with values, which reached upload once
\* with the identifier of that call.
C15_Witness ==
  /\ last.op = "makeNDArrayData"
  /\ last.values.kind # "null"
  /\ Len(last.uploads) = 1
  /\ last.uploads[1].id = last.id
  /\ last.id = 2
  /\ Len(hist[last.m]) = 2
  /\ hist[last.m][1].tracked

\* C18: download(id) and dispose(id) fail for every identifier and in every
\* backend state, and change neither the storage table nor the texture pool.
C18_DownloadDisposeAlwaysFail ==
  [][ last'.op \in {"download", "dispose"} =>
        /\ last'.threw
        /\ last'.out = NullValues
        /\ UNCHANGED <<db, acquired, taken, texData>> ]_vars

\* C18 witness: on an initialized backend with a texture to give, dispose was
\* called for the identifier of the latest upload, and failed.
C18_Witness ==
  /\ last.op = "dispose"
  /\ last.init /\ last.free
  /\ lastUpload.id = last.id
  /\ last.threw

====
